---------------------------- MODULE Spec2Model ----------------------------
(***************************************************************************)
(* A model of SimpleCarpoolComparison (src/src/SimpleCarpoolComparison.py):*)
(* the three static methods is_longer_trip, dist and coordinate_to_float,  *)
(* the class attribute volumetric_mean_radius_kilometers, and the callers  *)
(* that invoke them.                                                       *)
(*                                                                         *)
(* Python values are records [t, v, e]: t is the value's type() name, v a  *)
(* number's value and e a tuple's elements.  A float is a fixed-point      *)
(* number with Scale units to 1 (three decimal digits): every arithmetic   *)
(* operation and every math.* function returns the exact result rounded to *)
(* the nearest representable value, as IEEE arithmetic does at its own     *)
(* precision.  Degrees are therefore held in millidegrees, radians in      *)
(* milliradians, sines and cosines in thousandths and distances (radius in *)
(* whole kilometres times an angle in milliradians) in metres.             *)
(***************************************************************************)
EXTENDS Integers, Sequences, FiniteSets, TLC

(***************************************************************************)
(* Floating point arithmetic                                               *)
(***************************************************************************)

\* Units to 1 of the model's floats.
Scale == 1000

\* Units to 1 inside the math library (one guard digit).
Guard == 10

\* n / d rounded to the nearest integer, halves away from zero (d > 0).
RoundDiv(n, d) ==
    IF n >= 0 THEN (2 * n + d) \div (2 * d) ELSE -((2 * (-n) + d) \div (2 * d))

\* x * y of two floats.
FMul(x, y) == RoundDiv(x * y, Scale)

\* x / 2.0
FHalf(x) == RoundDiv(x, 2)

\* math.radians(x) = x * (pi / 180), pi taken as 355/113.
Radians(x) == RoundDiv(x * 355, 113 * 180)

\* pi, pi/2 and pi/4 in the library's units.
LibPi == 31416
LibHalfPi == 15708
LibQuarterPi == 7854
LibOne == Scale * Guard

\* The sine series on [0, pi/4], in library units.
SinSeries(y) ==
    LET y2 == RoundDiv(y * y, LibOne)
        t1 == y
        t3 == RoundDiv(t1 * y2, 6 * LibOne)
        t5 == RoundDiv(t3 * y2, 20 * LibOne)
        t7 == RoundDiv(t5 * y2, 42 * LibOne)
    IN  t1 - t3 + t5 - t7

\* The cosine series on [0, pi/4], in library units.
CosSeries(y) ==
    LET y2 == RoundDiv(y * y, LibOne)
        t0 == LibOne
        t2 == RoundDiv(t0 * y2, 2 * LibOne)
        t4 == RoundDiv(t2 * y2, 12 * LibOne)
        t6 == RoundDiv(t4 * y2, 30 * LibOne)
        t8 == RoundDiv(t6 * y2, 56 * LibOne)
    IN  t0 - t2 + t4 - t6 + t8

\* sin on [0, pi/2], in library units.
SinQuarter(y) == IF y <= LibQuarterPi THEN SinSeries(y) ELSE CosSeries(LibHalfPi - y)

\* sin on [0, pi], in library units.
SinHalf(y) == IF y > LibHalfPi THEN SinQuarter(LibPi - y) ELSE SinQuarter(y)

\* sin of any angle, in library units.
SinLib(y) ==
    LET m == (IF y < 0 THEN -y ELSE y) % (2 * LibPi)
        s == IF m > LibPi THEN -SinHalf(m - LibPi) ELSE SinHalf(m)
    IN  IF y < 0 THEN -s ELSE s

\* math.sin(r)
Sin(r) == RoundDiv(SinLib(Guard * r), Guard)

\* math.cos(r)
Cos(r) == RoundDiv(SinLib(Guard * r + LibHalfPi), Guard)

\* The integer nearest to the square root of n >= 0, by bisection on [lo, hi].
RECURSIVE SqrtSearch(_, _, _)
SqrtSearch(n, lo, hi) ==
    IF lo >= hi THEN lo
    ELSE LET mid == (lo + hi + 1) \div 2
         IN  IF mid * mid <= n THEN SqrtSearch(n, mid, hi)
             ELSE SqrtSearch(n, lo, mid - 1)

\* math.sqrt(x) for x >= 0 (math.sqrt raises ValueError below 0: see DistCalc).
Sqrt(x) ==
    LET n == x * Scale
        s == SqrtSearch(n, 0, 2 * Scale)
    IN  IF n - s * s <= (s + 1) * (s + 1) - n - 1 THEN s ELSE s + 1

\* The arctangent series for 0 <= z <= 2 - sqrt(3), in library units.
AtanSeries(z) ==
    LET z2 == RoundDiv(z * z, LibOne)
        t1 == z
        t3 == RoundDiv(t1 * z2, LibOne)
        t5 == RoundDiv(t3 * z2, LibOne)
        t7 == RoundDiv(t5 * z2, LibOne)
    IN  t1 - RoundDiv(t3, 3) + RoundDiv(t5, 5) - RoundDiv(t7, 7)

\* atan on [0, 1], in library units: above 2 - sqrt(3) by
\* atan z = pi/6 + atan((sqrt(3) z - 1) / (sqrt(3) + z)).
AtanLib(z) ==
    IF z > 2679
    THEN 5236 + AtanSeries(RoundDiv((RoundDiv(17321 * z, LibOne) - LibOne) * LibOne,
                                    17321 + z))
    ELSE AtanSeries(z)

\* math.atan2(y, x) for y >= 0 and x >= 0, the only quadrant dist asks for.
Atan2(y, x) ==
    IF y = 0 THEN 0
    ELSE IF x = 0 THEN RoundDiv(LibHalfPi, Guard)
    ELSE IF y <= x THEN RoundDiv(AtanLib(RoundDiv(y * LibOne, x)), Guard)
    ELSE RoundDiv(LibHalfPi - AtanLib(RoundDiv(x * LibOne, y)), Guard)

(***************************************************************************)
(* Python values, results and exceptions                                   *)
(***************************************************************************)

PyFloat(x) == [t |-> "float", v |-> x, e |-> <<>>]
PyInt(n) == [t |-> "int", v |-> n, e |-> <<>>]
PyBool(b) == [t |-> "bool", v |-> IF b THEN 1 ELSE 0, e |-> <<>>]
PyStr == [t |-> "str", v |-> 0, e |-> <<>>]
PyTuple(es) == [t |-> "tuple", v |-> 0, e |-> es]

\* v[i], with Python's index from 0, and whether it exists (else IndexError).
Item(val, i) == val.e[i + 1]
HasItem(val, i) == i < Len(val.e)

\* How a call ends: k is "return" or the exception's class.  A TypeError's
\* message is "Invalid input to <fn>! <what> in arg[p1][p2]..", path = <<p1, p2, ..>>.
NoOutcome == [k |-> "none", v |-> 0, b |-> FALSE, fn |-> "", what |-> "", path |-> <<>>]
Return(x) == [NoOutcome EXCEPT !.k = "return", !.v = x]
ReturnBool(flag) == [NoOutcome EXCEPT !.k = "return", !.b = flag]
TypeError(f, w, p) == [NoOutcome EXCEPT !.k = "TypeError", !.fn = f, !.what = w, !.path = p]
\* "tuple index out of range", raised by a subscript
IndexError == [NoOutcome EXCEPT !.k = "IndexError"]
\* "math domain error", raised by math.sqrt
ValueError == [NoOutcome EXCEPT !.k = "ValueError"]

(***************************************************************************)
(* State                                                                   *)
(***************************************************************************)

\* The value the class body gives volumetric_mean_radius_kilometers, in km.
VolumetricMeanRadius == 6371

VARIABLES
    volumetric_mean_radius_kilometers,  \* the class attribute dist reads
    pc,       \* per caller: where its call stands
    op,       \* per caller: the method it called
    args,     \* per caller: the arguments it passed
    outcome,  \* per caller: how the call ended
    xtrip,    \* per frame: is_longer_trip's local xtrip
    ytrip,    \* per frame: is_longer_trip's local ytrip
    ndist,    \* per caller: the dist calls its is_longer_trip has started
    overlapped  \* per caller: another caller's call ran during its call

vars == <<volumetric_mean_radius_kilometers, pc, op, args, outcome, xtrip, ytrip, ndist,
          overlapped>>

(***************************************************************************)
(* dist                                                                    *)
(***************************************************************************)

\* DistCheck with len(v1) tested a second time where len(v2) is due.
DistCheckFirstSizeTwice(v1, v2) ==
    IF v1.t # "tuple" THEN TypeError("dist", "Expected tuple", <<0>>)
    ELSE IF Len(v1.e) # 2 THEN TypeError("dist", "Incorrect tuple size", <<0>>)
    ELSE IF Item(v1, 0).t # "float" THEN TypeError("dist", "Expected float", <<0, 0>>)
    ELSE IF Item(v1, 1).t # "float" THEN TypeError("dist", "Expected float", <<0, 1>>)
    ELSE IF v2.t # "tuple" THEN TypeError("dist", "Expected tuple", <<1>>)
    ELSE IF Len(v1.e) # 2 THEN TypeError("dist", "Incorrect tuple size", <<1>>)
    ELSE IF ~HasItem(v2, 0) THEN IndexError
    ELSE IF Item(v2, 0).t # "float" THEN TypeError("dist", "Expected float", <<1, 0>>)
    ELSE IF ~HasItem(v2, 1) THEN IndexError
    ELSE IF Item(v2, 1).t # "float" THEN TypeError("dist", "Expected float", <<1, 1>>)
    ELSE NoOutcome

\* dist's input check: the exception it raises, or NoOutcome when it passes.
DistCheck(v1, v2) ==
    IF v1.t # "tuple" THEN TypeError("dist", "Expected tuple", <<0>>)
    ELSE IF Len(v1.e) # 2 THEN TypeError("dist", "Incorrect tuple size", <<0>>)
    ELSE IF Item(v1, 0).t # "float" THEN TypeError("dist", "Expected float", <<0, 0>>)
    ELSE IF Item(v1, 1).t # "float" THEN TypeError("dist", "Expected float", <<0, 1>>)
    ELSE IF v2.t # "tuple" THEN TypeError("dist", "Expected tuple", <<1>>)
    ELSE IF Len(v2.e) # 2 THEN TypeError("dist", "Incorrect tuple size", <<1>>)
    ELSE IF Item(v2, 0).t # "float" THEN TypeError("dist", "Expected float", <<1, 0>>)
    ELSE IF Item(v2, 1).t # "float" THEN TypeError("dist", "Expected float", <<1, 1>>)
    ELSE NoOutcome

\* LatDelta with v1's longitude taken for its latitude.
LatDeltaMixed(v1, v2) == Radians(Item(v2, 0).v - Item(v1, 1).v)

\* lad = math.radians(v2[0] - v1[0])
LatDelta(v1, v2) == Radians(Item(v2, 0).v - Item(v1, 0).v)

\* lod = math.radians(v2[1] - v1[1])
LongDelta(v1, v2) == Radians(Item(v2, 1).v - Item(v1, 1).v)

\* HalfChord with cos(v1a) taken twice, for cos(v1a) * cos(v2a).
HalfChordOneSided(v1a, v2a, lad, lod) ==
    FMul(Sin(FHalf(lad)), Sin(FHalf(lad)))
      + FMul(FMul(FMul(Cos(v1a), Cos(v1a)), Sin(FHalf(lod))), Sin(FHalf(lod)))

\* a, half the chord length squared
HalfChord(v1a, v2a, lad, lod) ==
    FMul(Sin(FHalf(lad)), Sin(FHalf(lad)))
      + FMul(FMul(FMul(Cos(v1a), Cos(v2a)), Sin(FHalf(lod))), Sin(FHalf(lod)))

\* c = 2.0 * math.atan2(math.sqrt(a), math.sqrt(1.0 - a)), for 0 <= a <= 1
AngularDistance(a) == 2 * Atan2(Sqrt(a), Sqrt(Scale - a))

\* Lines 252-259, from a on: math.sqrt raises ValueError on a negative
\* argument, and the exception leaves dist.
DistFromChord(a) ==
    LET R == volumetric_mean_radius_kilometers
    IN  IF a < 0 \/ Scale - a < 0 THEN ValueError
        ELSE Return(R * AngularDistance(a))

\* dist's computation, after the check (lines 219-259).
DistCalc(v1, v2) ==
    LET v1a == Radians(Item(v1, 0).v)
        v2a == Radians(Item(v2, 0).v)
    IN  DistFromChord(HalfChord(v1a, v2a, LatDelta(v1, v2), LongDelta(v1, v2)))

\* dist(v1, v2): what the call returns or raises.
Dist(v1, v2) ==
    IF DistCheck(v1, v2) # NoOutcome THEN DistCheck(v1, v2) ELSE DistCalc(v1, v2)

(***************************************************************************)
(* coordinate_to_float                                                     *)
(***************************************************************************)

\* coordinate_to_float's input check.
CoordCheck(degrees, minutes, seconds, sign) ==
    IF degrees.t # "int" THEN TypeError("coordinate_to_float", "Expected int", <<0>>)
    ELSE IF minutes.t # "int" THEN TypeError("coordinate_to_float", "Expected int", <<1>>)
    ELSE IF seconds.t # "int" THEN TypeError("coordinate_to_float", "Expected int", <<2>>)
    ELSE IF sign.t # "bool" THEN TypeError("coordinate_to_float", "Expected bool", <<3>>)
    ELSE NoOutcome

\* CoordCalc without the negation of a false sign.
CoordCalcUnsigned(degrees, minutes, seconds, sign) ==
    Return(degrees.v * Scale + RoundDiv(minutes.v * Scale, 60)
             + RoundDiv(seconds.v * Scale, 3600))

\* coordinate_to_float's computation, after the check.
CoordCalc(degrees, minutes, seconds, sign) ==
    LET ret0 == degrees.v * Scale
        ret1 == ret0 + RoundDiv(minutes.v * Scale, 60)
        ret2 == ret1 + RoundDiv(seconds.v * Scale, 3600)
    IN  IF sign.v = 1 THEN Return(ret2) ELSE Return(-ret2)

\* coordinate_to_float(degrees, minutes, seconds, sign)
CoordinateToFloat(degrees, minutes, seconds, sign) ==
    IF CoordCheck(degrees, minutes, seconds, sign) # NoOutcome
    THEN CoordCheck(degrees, minutes, seconds, sign)
    ELSE CoordCalc(degrees, minutes, seconds, sign)

(***************************************************************************)
(* is_longer_trip                                                          *)
(***************************************************************************)

\* is_longer_trip's input check, lines 119-160, branch by branch: the
\* exception raised, or NoOutcome when every branch is passed.  Line 132 names
\* arg[0][0][0] for x[0][1]; line 155 tests len(y), which line 143 has found
\* to be 2, so the subscripts y[1][0] and y[1][1] of lines 157 and 159 are
\* unguarded and raise IndexError on a short y[1].
IltCheck(x, y) ==
    LET f == "is_longer_trip" IN
    IF x.t # "tuple" THEN TypeError(f, "Expected tuple", <<0>>)
    ELSE IF Len(x.e) # 2 THEN TypeError(f, "Incorrect tuple size", <<0>>)
    ELSE IF Item(x, 0).t # "tuple" THEN TypeError(f, "Expected tuple", <<0, 0>>)
    ELSE IF Len(Item(x, 0).e) # 2 THEN TypeError(f, "Incorrect tuple size", <<0, 0>>)
    ELSE IF Item(Item(x, 0), 0).t # "float" THEN TypeError(f, "Expected float", <<0, 0, 0>>)
    ELSE IF Item(Item(x, 0), 1).t # "float" THEN TypeError(f, "Expected float", <<0, 0, 0>>)
    ELSE IF Item(x, 1).t # "tuple" THEN TypeError(f, "Expected tuple", <<0, 1>>)
    ELSE IF Len(Item(x, 1).e) # 2 THEN TypeError(f, "Incorrect tuple size", <<0, 1>>)
    ELSE IF Item(Item(x, 1), 0).t # "float" THEN TypeError(f, "Expected float", <<0, 1, 0>>)
    ELSE IF Item(Item(x, 1), 1).t # "float" THEN TypeError(f, "Expected float", <<0, 1, 1>>)
    ELSE IF y.t # "tuple" THEN TypeError(f, "Expected tuple", <<1>>)
    ELSE IF Len(y.e) # 2 THEN TypeError(f, "Incorrect tuple size", <<1>>)
    ELSE IF Item(y, 0).t # "tuple" THEN TypeError(f, "Expected tuple", <<1, 0>>)
    ELSE IF Len(Item(y, 0).e) # 2 THEN TypeError(f, "Incorrect tuple size", <<1, 0>>)
    ELSE IF Item(Item(y, 0), 0).t # "float" THEN TypeError(f, "Expected float", <<1, 0, 0>>)
    ELSE IF Item(Item(y, 0), 1).t # "float" THEN TypeError(f, "Expected float", <<1, 0, 1>>)
    ELSE IF Item(y, 1).t # "tuple" THEN TypeError(f, "Expected float", <<1, 1>>)
    ELSE IF Len(y.e) # 2 THEN TypeError(f, "Incorrect tuple size", <<1, 1>>)
    ELSE IF ~HasItem(Item(y, 1), 0) THEN IndexError
    ELSE IF Item(Item(y, 1), 0).t # "float" THEN TypeError(f, "Expected float", <<1, 1, 0>>)
    ELSE IF ~HasItem(Item(y, 1), 1) THEN IndexError
    ELSE IF Item(Item(y, 1), 1).t # "float" THEN TypeError(f, "Expected float", <<1, 1, 1>>)
    ELSE NoOutcome

\* The six legs, in the order of lines 169-171 and 175-177: the pair of
\* points passed to dist at each, with a = x[0], b = x[1], c = y[0], d = y[1].
Legs == <<"x1", "x2", "x3", "y1", "y2", "y3">>

LegFrom(leg, x, y) ==
    CASE leg = "x1" -> Item(x, 0)
      [] leg = "x2" -> Item(y, 0)
      [] leg = "x3" -> Item(y, 1)
      [] leg = "y1" -> Item(y, 0)
      [] leg = "y2" -> Item(x, 0)
      [] leg = "y3" -> Item(x, 1)

LegTo(leg, x, y) ==
    CASE leg = "x1" -> Item(y, 0)
      [] leg = "x2" -> Item(y, 1)
      [] leg = "x3" -> Item(x, 1)
      [] leg = "y1" -> Item(x, 0)
      [] leg = "y2" -> Item(x, 1)
      [] leg = "y3" -> Item(y, 1)

\* The statement after a leg's: the next leg, or the comparison of line 180.
AfterLeg(leg) ==
    CASE leg = "x1" -> "x2"
      [] leg = "x2" -> "x3"
      [] leg = "x3" -> "y1"
      [] leg = "y1" -> "y2"
      [] leg = "y2" -> "y3"
      [] leg = "y3" -> "compare"

\* IsLonger with >= for >.
IsLongerOrEqual(xt, yt) == xt >= yt

\* Lines 180-185: True if xtrip > ytrip, else False.
IsLonger(xt, yt) == xt > yt

\* The outcomes of the legs' dist calls, in the order of Legs.
LegOutcomes(x, y) == [i \in 1..Len(Legs) |-> Dist(LegFrom(Legs[i], x, y), LegTo(Legs[i], x, y))]

\* is_longer_trip(x, y), run from its first line to its last: the check's
\* exception, else the exception of the first leg whose dist raises, else the
\* comparison of the two sums.
IsLongerTrip(x, y) ==
    IF IltCheck(x, y) # NoOutcome THEN IltCheck(x, y)
    ELSE LET r == LegOutcomes(x, y)
             raised == {i \in 1..Len(Legs) : r[i].k # "return"}
         IN  IF raised # {}
             THEN r[CHOOSE i \in raised : \A j \in raised : i <= j]
             ELSE ReturnBool(IsLonger(0 + r[1].v + r[2].v + r[3].v,
                                      0 + r[4].v + r[5].v + r[6].v))

\* FrameOf with one frame for every call, as if xtrip and ytrip were class
\* attributes.
FrameShared(t) == 1

\* The frame that holds a call's locals: every invocation has its own.
FrameOf(t) == t

(***************************************************************************)
(* The callers' inputs                                                     *)
(***************************************************************************)

\* The longest tuple a caller passes where a pair is expected.
MaxTupleLen == 3

\* The callers of the concurrent specification.
NumThreads == 2

PyPoint(lat, long) == PyTuple(<<PyFloat(lat), PyFloat(long)>>)

GulfOfGuinea == PyPoint(0, 0)
NewYork == PyPoint(40752, 73994)
North70 == PyPoint(70000, 0)
South70 == PyPoint(-70000, -180000)
OffRange == PyPoint(100000, 200000)

Points == {GulfOfGuinea, NewYork, North70, South70, OffRange}

Routes == {PyTuple(<<p, q>>) : p \in Points, q \in Points}

\* tuple with its item i replaced
WithItem(tuple, i, val) == PyTuple([tuple.e EXCEPT ![i + 1] = val])

\* n copies of val, as a tuple
Repeat(val, n) == PyTuple([i \in 1..n |-> val])

BadLeaves == {PyInt(7), PyStr, PyBool(TRUE)}

NonTuples == {PyInt(7), PyStr, PyFloat(1100)}

WrongSizes == (0..MaxTupleLen) \ {2}

\* Every way one point is malformed: not a tuple, a tuple of the wrong size,
\* or a pair with a component that is not a float.
FaultyPoints ==
    NonTuples
      \cup {Repeat(PyFloat(4400), n) : n \in WrongSizes}
      \cup {WithItem(NewYork, k, leaf) : k \in {0, 1}, leaf \in BadLeaves}

BaseRoute == PyTuple(<<NewYork, GulfOfGuinea>>)

\* Every way one route is malformed: not a tuple (a point passed as a route
\* included, as the self-test does), the wrong size, or one malformed endpoint.
FaultyRoutes ==
    ({PyInt(7), PyStr} \cup {Repeat(NewYork, n) : n \in WrongSizes})
      \cup {WithItem(BaseRoute, j, fp) : j \in {0, 1}, fp \in FaultyPoints \cup {NewYork.e[1]}}

RouteInputs == Routes \cup FaultyRoutes

PointInputs == Points \cup FaultyPoints

DegreeInputs == {PyInt(0), PyInt(40), PyInt(-22), PyInt(122), PyFloat(6600), PyBool(TRUE)}
MinuteInputs == {PyInt(0), PyInt(45), PyInt(59), PyFloat(5000), PyStr}
SecondInputs == {PyInt(0), PyInt(6), PyInt(43), PyFloat(4000), PyBool(FALSE)}
SignInputs == {PyBool(TRUE), PyBool(FALSE), PyInt(1), PyStr}

\* The few calls of concurrent callers: is_longer_trip returning False,
\* returning True and raising in its second dist call; dist returning and
\* raising ValueError; coordinate_to_float returning and raising TypeError.
ConcurrentTrips ==
    {<<PyTuple(<<NewYork, GulfOfGuinea>>), PyTuple(<<North70, OffRange>>)>>,
     <<PyTuple(<<North70, OffRange>>), PyTuple(<<NewYork, GulfOfGuinea>>)>>,
     <<PyTuple(<<NewYork, GulfOfGuinea>>), PyTuple(<<NewYork, Repeat(PyFloat(4400), 3)>>)>>}
ConcurrentDists == {<<NewYork, North70>>, <<North70, South70>>}
ConcurrentCoords ==
    {<<PyInt(40), PyInt(45), PyInt(6), PyBool(FALSE)>>,
     <<PyInt(40), PyInt(45), PyInt(6), PyInt(1)>>}

\* The callers there can be; those of a behaviour are DOMAIN pc.
Callers == 1..NumThreads

Concurrent == Cardinality(DOMAIN pc) > 1

(***************************************************************************)
(* The calls, statement by statement                                       *)
(***************************************************************************)

Init ==
    /\ volumetric_mean_radius_kilometers = VolumetricMeanRadius
    /\ pc = [t \in {1} |-> "idle"]
    /\ op = [t \in {1} |-> ""]
    /\ args = [t \in {1} |-> <<>>]
    /\ outcome = [t \in {1} |-> NoOutcome]
    /\ xtrip = [t \in {1} |-> 0]
    /\ ytrip = [t \in {1} |-> 0]
    /\ ndist = [t \in {1} |-> 0]
    /\ overlapped = [t \in {1} |-> FALSE]

InitConcurrent ==
    /\ volumetric_mean_radius_kilometers = VolumetricMeanRadius
    /\ pc = [t \in 1..NumThreads |-> "idle"]
    /\ op = [t \in 1..NumThreads |-> ""]
    /\ args = [t \in 1..NumThreads |-> <<>>]
    /\ outcome = [t \in 1..NumThreads |-> NoOutcome]
    /\ xtrip = [t \in 1..NumThreads |-> 0]
    /\ ytrip = [t \in 1..NumThreads |-> 0]
    /\ ndist = [t \in 1..NumThreads |-> 0]
    /\ overlapped = [t \in 1..NumThreads |-> FALSE]

\* Caller u's call is under way.
Running(u) == pc[u] \notin {"idle", "done"}

\* A caller invokes method m with arguments a: control enters the method.
Enter(t, m, a) ==
    /\ pc' = [pc EXCEPT ![t] = "check"]
    /\ op' = [op EXCEPT ![t] = m]
    /\ args' = [args EXCEPT ![t] = a]
    /\ overlapped' = [u \in DOMAIN pc |->
                        IF u = t THEN \E w \in DOMAIN pc : Running(w)
                        ELSE overlapped[u] \/ Running(u)]
    /\ UNCHANGED <<volumetric_mean_radius_kilometers, outcome, xtrip, ytrip, ndist>>

\* The call ends with outcome r: a return, or an exception that leaves it.
Leave(t, r) ==
    /\ pc' = [pc EXCEPT ![t] = "done"]
    /\ outcome' = [outcome EXCEPT ![t] = r]

CallIsLongerTrip(t) ==
    /\ t \in DOMAIN pc
    /\ pc[t] = "idle"
    /\ \E a \in IF Concurrent THEN ConcurrentTrips ELSE RouteInputs \X RouteInputs :
        Enter(t, "is_longer_trip", a)

CallDist(t) ==
    /\ t \in DOMAIN pc
    /\ pc[t] = "idle"
    /\ \E a \in IF Concurrent THEN ConcurrentDists ELSE PointInputs \X PointInputs :
        Enter(t, "dist", a)

CallCoordinateToFloat(t) ==
    /\ t \in DOMAIN pc
    /\ pc[t] = "idle"
    /\ \E a \in IF Concurrent THEN ConcurrentCoords
                ELSE DegreeInputs \X MinuteInputs \X SecondInputs \X SignInputs :
        Enter(t, "coordinate_to_float", a)

\* Lines 119-168: the input check, then a..d and xtrip = 0.0.
IltCheckStep(t) ==
    /\ t \in DOMAIN pc
    /\ pc[t] = "check"
    /\ op[t] = "is_longer_trip"
    /\ LET r == IltCheck(args[t][1], args[t][2])
       IN  IF r # NoOutcome
           THEN Leave(t, r) /\ UNCHANGED xtrip
           ELSE /\ pc' = [pc EXCEPT ![t] = "x1"]
                /\ xtrip' = [xtrip EXCEPT ![FrameOf(t)] = 0]
                /\ UNCHANGED outcome
    /\ UNCHANGED <<volumetric_mean_radius_kilometers, op, args, ytrip, ndist, overlapped>>

\* Lines 169-171 and 174-177: one "trip += dist(..)"; ytrip = 0.0 goes with
\* the first ytrip leg.  An exception raised in dist leaves is_longer_trip.
IltLegStep(t) ==
    /\ t \in DOMAIN pc
    /\ pc[t] \in {Legs[i] : i \in 1..Len(Legs)}
    /\ \E r \in {Dist(LegFrom(pc[t], args[t][1], args[t][2]),
                      LegTo(pc[t], args[t][1], args[t][2]))} :
        LET leg == pc[t]
            f == FrameOf(t)
        IN  /\ ndist' = [ndist EXCEPT ![t] = @ + 1]
            /\ IF r.k # "return"
               THEN Leave(t, r) /\ UNCHANGED <<xtrip, ytrip>>
               ELSE /\ pc' = [pc EXCEPT ![t] = AfterLeg(leg)]
                    /\ xtrip' = IF leg \in {"x1", "x2", "x3"}
                                THEN [xtrip EXCEPT ![f] = @ + r.v] ELSE xtrip
                    /\ ytrip' = IF leg = "y1" THEN [ytrip EXCEPT ![f] = 0 + r.v]
                                ELSE IF leg \in {"y2", "y3"}
                                THEN [ytrip EXCEPT ![f] = @ + r.v] ELSE ytrip
                    /\ UNCHANGED outcome
    /\ UNCHANGED <<volumetric_mean_radius_kilometers, op, args, overlapped>>

\* Lines 180-185.
IltCompareStep(t) ==
    /\ t \in DOMAIN pc
    /\ pc[t] = "compare"
    /\ Leave(t, ReturnBool(IsLonger(xtrip[FrameOf(t)], ytrip[FrameOf(t)])))
    /\ UNCHANGED <<volumetric_mean_radius_kilometers, op, args, xtrip, ytrip, ndist, overlapped>>

\* Lines 199-216.
DistCheckStep(t) ==
    /\ t \in DOMAIN pc
    /\ pc[t] = "check"
    /\ op[t] = "dist"
    /\ LET r == DistCheck(args[t][1], args[t][2])
       IN  IF r # NoOutcome THEN Leave(t, r)
           ELSE pc' = [pc EXCEPT ![t] = "calc"] /\ UNCHANGED outcome
    /\ UNCHANGED <<volumetric_mean_radius_kilometers, op, args, xtrip, ytrip, ndist, overlapped>>

\* Lines 219-259.
DistCalcStep(t) ==
    /\ t \in DOMAIN pc
    /\ pc[t] = "calc"
    /\ op[t] = "dist"
    /\ Leave(t, DistCalc(args[t][1], args[t][2]))
    /\ UNCHANGED <<volumetric_mean_radius_kilometers, op, args, xtrip, ytrip, ndist, overlapped>>

\* Lines 274-283.
CoordCheckStep(t) ==
    /\ t \in DOMAIN pc
    /\ pc[t] = "check"
    /\ op[t] = "coordinate_to_float"
    /\ LET r == CoordCheck(args[t][1], args[t][2], args[t][3], args[t][4])
       IN  IF r # NoOutcome THEN Leave(t, r)
           ELSE pc' = [pc EXCEPT ![t] = "calc"] /\ UNCHANGED outcome
    /\ UNCHANGED <<volumetric_mean_radius_kilometers, op, args, xtrip, ytrip, ndist, overlapped>>

\* Lines 285-291.
CoordCalcStep(t) ==
    /\ t \in DOMAIN pc
    /\ pc[t] = "calc"
    /\ op[t] = "coordinate_to_float"
    /\ Leave(t, CoordCalc(args[t][1], args[t][2], args[t][3], args[t][4]))
    /\ UNCHANGED <<volumetric_mean_radius_kilometers, op, args, xtrip, ytrip, ndist, overlapped>>

\* The caller has its result; the call's frame is discarded.
Finish(t) ==
    /\ t \in DOMAIN pc
    /\ pc[t] = "done"
    /\ pc' = [pc EXCEPT ![t] = "idle"]
    /\ op' = [op EXCEPT ![t] = ""]
    /\ args' = [args EXCEPT ![t] = <<>>]
    /\ outcome' = [outcome EXCEPT ![t] = NoOutcome]
    /\ xtrip' = [xtrip EXCEPT ![FrameOf(t)] = 0]
    /\ ytrip' = [ytrip EXCEPT ![FrameOf(t)] = 0]
    /\ ndist' = [ndist EXCEPT ![t] = 0]
    /\ overlapped' = [overlapped EXCEPT ![t] = FALSE]
    /\ UNCHANGED volumetric_mean_radius_kilometers

Next ==
    \/ \E t \in Callers : CallIsLongerTrip(t)
    \/ \E t \in Callers : CallDist(t)
    \/ \E t \in Callers : CallCoordinateToFloat(t)
    \/ \E t \in Callers : IltCheckStep(t)
    \/ \E t \in Callers : IltLegStep(t)
    \/ \E t \in Callers : IltCompareStep(t)
    \/ \E t \in Callers : DistCheckStep(t)
    \/ \E t \in Callers : DistCalcStep(t)
    \/ \E t \in Callers : CoordCheckStep(t)
    \/ \E t \in Callers : CoordCalcStep(t)
    \/ \E t \in Callers : Finish(t)

\* One caller at a time, with every input.
Spec == Init /\ [][Next]_vars

\* NumThreads callers, their calls interleaved statement by statement.
SpecConcurrent == InitConcurrent /\ [][Next]_vars

(***************************************************************************)
(* The data model of the specification                                     *)
(***************************************************************************)

\* A GeoPoint: a pair of floats.
WellFormedPoint(p) ==
    p.t = "tuple" /\ Len(p.e) = 2 /\ \A i \in 1..2 : p.e[i].t = "float"

\* A Route: a pair of GeoPoints.
WellFormedRoute(r) ==
    r.t = "tuple" /\ Len(r.e) = 2 /\ \A i \in 1..2 : WellFormedPoint(r.e[i])

\* The paths arg[i].. of the malformed components of a point, a route, a call.
PointFaults(p, path) ==
    IF p.t # "tuple" \/ Len(p.e) # 2 THEN {path}
    ELSE {path \o <<k>> : k \in {j \in {0, 1} : Item(p, j).t # "float"}}

RouteFaults(r, i) ==
    IF r.t # "tuple" \/ Len(r.e) # 2 THEN {<<i>>}
    ELSE PointFaults(Item(r, 0), <<i, 0>>) \cup PointFaults(Item(r, 1), <<i, 1>>)

Faults(x, y) == RouteFaults(x, 0) \cup RouteFaults(y, 1)

\* Caller t's call of method m has ended.
Ended(t, m) == pc[t] = "done" /\ op[t] = m

\* math.pi as a float.
MathPi == RoundDiv(LibPi, Guard)

(***************************************************************************)
(* Properties                                                              *)
(***************************************************************************)

\* C1: on well-formed routes x = (a, b) and y = (c, d), is_longer_trip returns
\* True exactly when xtrip = dist(a,c) + dist(c,d) + dist(d,b) is greater than
\* ytrip = dist(c,a) + dist(a,b) + dist(b,d), and False when it is not: a tie
\* returns False.  (Where a dist raises there is no xtrip or ytrip, and no
\* True is returned.)
IsLongerTripContract ==
    \A t \in DOMAIN pc :
        (Ended(t, "is_longer_trip") /\ WellFormedRoute(args[t][1])
                                    /\ WellFormedRoute(args[t][2])) =>
            LET a == Item(args[t][1], 0)
                b == Item(args[t][1], 1)
                c == Item(args[t][2], 0)
                d == Item(args[t][2], 1)
                xs == <<Dist(a, c), Dist(c, d), Dist(d, b)>>
                ys == <<Dist(c, a), Dist(a, b), Dist(b, d)>>
                defined == \A i \in 1..3 : xs[i].k = "return" /\ ys[i].k = "return"
                greater == xs[1].v + xs[2].v + xs[3].v > ys[1].v + ys[2].v + ys[3].v
            IN  /\ (outcome[t] = ReturnBool(TRUE)) <=> (defined /\ greater)
                /\ (defined /\ ~greater) => outcome[t] = ReturnBool(FALSE)

\* C1's case: a call on well-formed routes whose two trips tie, at a length
\* that is not zero, has returned False.
IsLongerTripTie ==
    \E t \in DOMAIN pc :
        /\ Ended(t, "is_longer_trip")
        /\ WellFormedRoute(args[t][1]) /\ WellFormedRoute(args[t][2])
        /\ args[t][1] # args[t][2]
        /\ xtrip[t] = ytrip[t] /\ xtrip[t] > 0
        /\ outcome[t] = ReturnBool(FALSE)

\* C2: every call of is_longer_trip with a malformed argument ends by raising
\* TypeError: no other exception, and no boolean.
IltRejectsMalformed ==
    \A t \in DOMAIN pc :
        (Ended(t, "is_longer_trip")
           /\ ~(WellFormedRoute(args[t][1]) /\ WellFormedRoute(args[t][2]))) =>
            outcome[t].k = "TypeError"

\* C3: every call of is_longer_trip with a malformed argument that ends in an
\* exception has started no dist call and holds no partial trip sum.
IltRaisesBeforeComputing ==
    \A t \in DOMAIN pc :
        (Ended(t, "is_longer_trip")
           /\ ~(WellFormedRoute(args[t][1]) /\ WellFormedRoute(args[t][2]))
           /\ outcome[t].k # "return") =>
            (ndist[t] = 0 /\ xtrip[t] = 0 /\ ytrip[t] = 0)

\* C4: dist is symmetric: on well-formed points a call dist(p, q) ends as
\* dist(q, p) does, with the same distance.
DistSymmetric ==
    \A t \in DOMAIN pc :
        (Ended(t, "dist") /\ WellFormedPoint(args[t][1]) /\ WellFormedPoint(args[t][2])) =>
            outcome[t] = Dist(args[t][2], args[t][1])

\* C4's case: dist has returned the distance, not zero, between two points
\* of different latitude and longitude.
DistSymmetricCase ==
    \E t \in DOMAIN pc :
        /\ Ended(t, "dist")
        /\ WellFormedPoint(args[t][1]) /\ WellFormedPoint(args[t][2])
        /\ Item(args[t][1], 0) # Item(args[t][2], 0)
        /\ Item(args[t][1], 1) # Item(args[t][2], 1)
        /\ outcome[t].k = "return" /\ outcome[t].v > 0

\* C5: on well-formed points dist returns a distance that is not negative and
\* not above pi * 6371.0.
DistInRange ==
    \A t \in DOMAIN pc :
        (Ended(t, "dist") /\ WellFormedPoint(args[t][1]) /\ WellFormedPoint(args[t][2])) =>
            /\ outcome[t].k = "return"
            /\ 0 <= outcome[t].v
            /\ outcome[t].v <= MathPi * VolumetricMeanRadius

\* C6: dist(p, p) returns exactly 0 for every well-formed point p, whatever
\* its latitude and longitude.
DistIdentity ==
    \A t \in DOMAIN pc :
        (Ended(t, "dist") /\ WellFormedPoint(args[t][1]) /\ args[t][2] = args[t][1]) =>
            outcome[t] = Return(0)

\* C6's case: dist(p, p) has returned 0 for a p whose latitude is above 90 and
\* whose longitude is above 180 degrees.
DistIdentityOffRange ==
    \E t \in DOMAIN pc :
        /\ Ended(t, "dist")
        /\ WellFormedPoint(args[t][1]) /\ args[t][2] = args[t][1]
        /\ Item(args[t][1], 0).v > 90 * Scale /\ Item(args[t][1], 1).v > 180 * Scale
        /\ outcome[t] = Return(0)

\* C7: when is_longer_trip raises TypeError on arguments with a single
\* malformed component, the message is is_longer_trip's and names the path of
\* that component.
IltMessageNamesPath ==
    \A t \in DOMAIN pc :
        (Ended(t, "is_longer_trip") /\ outcome[t].k = "TypeError"
           /\ Cardinality(Faults(args[t][1], args[t][2])) = 1) =>
            /\ outcome[t].fn = "is_longer_trip"
            /\ outcome[t].path \in Faults(args[t][1], args[t][2])

\* C8: dist raises TypeError, and returns nothing, whenever one of its two
\* arguments is not a pair of floats; coordinate_to_float does whenever degrees,
\* minutes or seconds is not an int or sign is not a bool.
LeafOperationsRejectMalformed ==
    \A t \in DOMAIN pc :
        /\ (Ended(t, "dist")
              /\ ~(WellFormedPoint(args[t][1]) /\ WellFormedPoint(args[t][2]))) =>
               (outcome[t].k = "TypeError" /\ outcome[t].fn = "dist")
        /\ (Ended(t, "coordinate_to_float")
              /\ ~(/\ \A i \in 1..3 : args[t][i].t = "int"
                   /\ args[t][4].t = "bool")) =>
               (outcome[t].k = "TypeError" /\ outcome[t].fn = "coordinate_to_float")

\* C8's case: dist has raised TypeError on a second point whose size is not 2
\* (its first argument being well formed).
DistRejectsWrongSize ==
    \E t \in DOMAIN pc :
        /\ Ended(t, "dist")
        /\ WellFormedPoint(args[t][1])
        /\ args[t][2].t = "tuple" /\ Len(args[t][2].e) > 2
        /\ outcome[t].k = "TypeError"

\* C9: on integers and a boolean sign coordinate_to_float returns
\* degrees + minutes/60 + seconds/3600 (to the rounding of its two divisions,
\* half a unit each) when sign is true, the negation of that when it is false,
\* and with the other sign exactly the negated value.
CoordinateValue ==
    \A t \in DOMAIN pc :
        (Ended(t, "coordinate_to_float")
           /\ (\A i \in 1..3 : args[t][i].t = "int") /\ args[t][4].t = "bool") =>
            LET exact == Scale * (3600 * args[t][1].v + 60 * args[t][2].v + args[t][3].v)
                got == 3600 * outcome[t].v
                err == IF args[t][4].v = 1 THEN got - exact ELSE got + exact
                other == CoordinateToFloat(args[t][1], args[t][2], args[t][3],
                                           PyBool(args[t][4].v # 1))
            IN  /\ outcome[t].k = "return"
                /\ -3600 <= err /\ err <= 3600
                /\ other.k = "return" /\ outcome[t].v = -other.v

\* C9's case: coordinate_to_float has returned a negative value for a false
\* sign and positive degrees, minutes and seconds.
CoordinateSouth ==
    \E t \in DOMAIN pc :
        /\ Ended(t, "coordinate_to_float")
        /\ args[t][1] = PyInt(40) /\ args[t][2] = PyInt(45) /\ args[t][3] = PyInt(6)
        /\ args[t][4] = PyBool(FALSE)
        /\ outcome[t] = Return(-40752)

\* What a call of method m with arguments a does when it runs alone.
Alone(m, a) ==
    CASE m = "is_longer_trip" -> IsLongerTrip(a[1], a[2])
      [] m = "dist" -> Dist(a[1], a[2])
      [] m = "coordinate_to_float" -> CoordinateToFloat(a[1], a[2], a[3], a[4])

\* C10: however the calls of the callers interleave, every call ends as it
\* does when it runs alone with the same arguments, and the radius dist reads
\* is 6371.0 throughout.
CallsAreIndependent ==
    /\ volumetric_mean_radius_kilometers = VolumetricMeanRadius
    /\ \A t \in DOMAIN pc :
           pc[t] = "done" => outcome[t] = Alone(op[t], args[t])

\* C10's case: two calls of is_longer_trip on different arguments overlap:
\* one has returned True while the other, begun before that, is at its
\* comparison.
InterleavedCalls ==
    \E t \in DOMAIN pc : \E u \in DOMAIN pc :
        /\ t # u
        /\ Ended(t, "is_longer_trip") /\ outcome[t] = ReturnBool(TRUE)
        /\ op[u] = "is_longer_trip" /\ pc[u] = "compare"
        /\ overlapped[t] /\ overlapped[u]
        /\ args[t] # args[u]

\* C11: for well-formed routes x = (a, b) and y = (c, d), is_longer_trip
\* returns True exactly when dist(c, d) > dist(a, b): the detour legs
\* dist(a, c) / dist(c, a) and dist(d, b) / dist(b, d) are in both sums and
\* cancel, so only the two direct trips decide. (The sums of the model are
\* sums of integers, hence exact.)
IltDependsOnDirectTrips ==
    \A t \in DOMAIN pc :
        (Ended(t, "is_longer_trip") /\ WellFormedRoute(args[t][1])
                                    /\ WellFormedRoute(args[t][2])) =>
            LET a == Item(args[t][1], 0)
                b == Item(args[t][1], 1)
                c == Item(args[t][2], 0)
                d == Item(args[t][2], 1)
                ab == Dist(a, b)
                cd == Dist(c, d)
                direct == ab.k = "return" /\ cd.k = "return" /\ cd.v > ab.v
            IN  (outcome[t] = ReturnBool(TRUE)) <=> direct
=============================================================================
